---- MODULE Spec2Model ----
(***************************************************************************)
(* Multi-model generation engine of AEON AI (AIQuizGenerator):             *)
(*   - the three ModelInstance slots, their mutexes, the manager mutex and *)
(*     the call_once backend initialisation (Spec);                        *)
(*   - the personality scoring functions (SpecScore, SpecFour);            *)
(*   - the response parsers (SpecParse) and the question-generation calls  *)
(*     (SpecApi);                                                          *)
(*   - the configuration setters (SpecConfig) and the sampling loop taken  *)
(*     one iteration at a time (SpecLoop);                                 *)
(*   - one call per request thread under fair scheduling (SpecFair).       *)
(***************************************************************************)
EXTENDS Integers, Sequences, FiniteSets, TLC

\* ------------------------------------------------------------------ bounds
\* calls the workers may start in one behaviour
MaxCalls == 2
\* value of the maxTokens configuration used by the sampling loop
MaxTokens == 1
\* longest answer sequence given to analyzePersonality
MaxAnswers == 2
\* fragments a response text given to the parsers is made of
MaxPieces == 4
\* value of maxTokens for the sampling loop taken one iteration at a time
MaxLoopTokens == 4

\* ------------------------------------------------------------------ slots
SlotOrder == <<"quiz", "psychology", "analysis">>
Slots == {SlotOrder[k] : k \in 1..3}

\* the path given to the constructor for each slot
CtorPath(s) == "models/" \o s

\* construction-time load threads (one per slot), and two request threads
\* that call into the engine once it is constructed
Loaders == {1, 2, 3}
Workers == {4, 5}
Threads == Loaders \cup Workers
NoThread == 0

VARIABLES
  \* ModelInstance fields, per slot
  model, context, isLoaded, modelPath, usageCount, modelMutex,
  \* AIQuizGenerator / process state
  managerMutex, llamaInitFlag, backendInits, constructed, crashed, calls,
  nullUse,
  \* per thread: position, operation, slot and locals
  pc, op, cur, argPath, kstep, success, ret, cause, engineCalls,
  iter, retText,
  \* analyzePersonality
  answers, apc, result,
  \* the response parsers: input text, position, returned values
  text, ppc, entries, correctIdx, usedFallback,
  \* one question-generation request: position, request, results, locals
  rpc, req, question, questions, httpStatus, genCalls, aiResponse, prompt,
  psychIdx,
  \* the configuration, and the branch the sampling loop took on temperature
  temperature, maxTokens, contextSize, branch,
  \* the sampling loop taken one iteration at a time
  loop

slotVars == <<model, context, isLoaded, modelPath, usageCount, modelMutex>>
procVars == <<managerMutex, llamaInitFlag, backendInits, constructed, crashed,
              calls, nullUse>>
threadVars == <<pc, op, cur, argPath, kstep, success, ret, cause, engineCalls,
                iter, retText>>
engineVars == <<slotVars, procVars, threadVars>>
scoreVars == <<answers, apc, result>>
parseVars == <<text, ppc, entries, correctIdx, usedFallback>>
apiVars == <<rpc, req, question, questions, httpStatus, genCalls, aiResponse,
             prompt, psychIdx>>
samplingVars == <<temperature, maxTokens, contextSize, branch, loop>>
vars == <<engineVars, scoreVars, parseVars, apiVars, samplingVars>>

\* ------------------------------------------------------------ text values
\* A generated text is kept as its length and whether it contains "Answer:".
EmptyText == [len |-> 0, marker |-> FALSE]
\* lengths of the fragments llama_token_to_piece can give (0: nothing to append)
PieceLens == {0, 50, 51}
EarlyStopLen == 50

\* ------------------------------------------------- the inference engine
\* llama_model_load_from_file: a file that may or may not be loadable; the
\* empty path names no file.
LoadOutcomes(path) == IF path = "" THEN {FALSE} ELSE {TRUE, FALSE}
\* llama_init_from_model
ContextOutcomes == {TRUE, FALSE}
\* A call made with a handle: "ok" or "fail" by the engine's own answer; with
\* a null handle the behaviour is undefined (abort, or any answer).
EngineOutcomes(handle) == IF handle THEN {"ok", "fail"} ELSE {"ok", "fail", "crash"}

\* ------------------------------------------------------------------ Init
EngineInit ==
  /\ model = [s \in Slots |-> FALSE]
  /\ context = [s \in Slots |-> FALSE]
  /\ isLoaded = [s \in Slots |-> FALSE]
  /\ modelPath = [s \in Slots |-> ""]
  /\ usageCount = [s \in Slots |-> 0]
  /\ modelMutex = [s \in Slots |-> NoThread]
  /\ managerMutex = NoThread
  /\ llamaInitFlag = "none"
  /\ backendInits = 0
  /\ constructed = FALSE
  /\ crashed = FALSE
  /\ calls = 0
  /\ nullUse = FALSE
  /\ pc = [t \in Threads |-> IF t \in Loaders THEN "im_lock" ELSE "idle"]
  /\ op = [t \in Threads |-> IF t \in Loaders THEN "ctor" ELSE "none"]
  /\ cur = [t \in Threads |-> IF t \in Loaders THEN SlotOrder[t] ELSE "quiz"]
  /\ argPath = [t \in Threads |-> IF t \in Loaders THEN CtorPath(SlotOrder[t]) ELSE ""]
  /\ kstep = [t \in Threads |-> 0]
  /\ success = [t \in Threads |-> TRUE]
  /\ ret = [t \in Threads |-> "none"]
  /\ cause = [t \in Threads |-> "none"]
  /\ engineCalls = [t \in Threads |-> 0]
  /\ iter = [t \in Threads |-> 0]
  /\ retText = [t \in Threads |-> EmptyText]

Running == ~crashed

\* a lock_guard that leaves the mutex locked when it goes out of scope
ReleaseSlotNever(s) == modelMutex

\* the end of the scope of std::lock_guard<std::mutex> lock(instance->modelMutex)
ReleaseSlot(s) == [modelMutex EXCEPT ![s] = NoThread]

\* success = the result of the last initializeModel call only
AccumulateSuccessLast(sofar, val) == val

\* success &= initializeModel(...)
AccumulateSuccess(sofar, val) == sofar /\ val

\* ------------------------------------------------------- initializeModel
\* What the caller does with initializeModel's result: a constructor task
\* ends; reloadModels accumulates it and goes on to the next slot.
InitReturns(t, val) ==
  IF op[t] = "ctor"
  THEN /\ pc' = [pc EXCEPT ![t] = "done"]
       /\ ret' = [ret EXCEPT ![t] = IF val THEN "true" ELSE "false"]
       /\ UNCHANGED <<kstep, cur, argPath, success>>
  ELSE /\ success' = [success EXCEPT ![t] = AccumulateSuccess(success[t], val)]
       /\ IF kstep[t] < 3
          THEN /\ kstep' = [kstep EXCEPT ![t] = kstep[t] + 1]
               /\ cur' = [cur EXCEPT ![t] = SlotOrder[kstep[t] + 1]]
               /\ argPath' = [argPath EXCEPT ![t] = modelPath[SlotOrder[kstep[t] + 1]]]
               /\ pc' = [pc EXCEPT ![t] = "im_lock"]
          ELSE /\ pc' = [pc EXCEPT ![t] = "rl_return"]
               /\ UNCHANGED <<kstep, cur, argPath>>
       /\ UNCHANGED ret

\* std::lock_guard<std::mutex> lock(instance->modelMutex)
InitLock(t) ==
  /\ Running /\ pc[t] = "im_lock"
  /\ modelMutex[cur[t]] = NoThread
  /\ modelMutex' = [modelMutex EXCEPT ![cur[t]] = t]
  /\ pc' = [pc EXCEPT ![t] = "im_once"]
  /\ UNCHANGED <<model, context, isLoaded, modelPath, usageCount, procVars,
                 op, cur, argPath, kstep, success, ret, cause, engineCalls,
                 iter, retText, scoreVars, parseVars, apiVars,
                 samplingVars>>

\* a plain test of the flag in place of call_once: a caller that finds the
\* function not yet finished runs it itself
CallOnceAsPlainFlag(t) ==
  \/ /\ llamaInitFlag # "done"
     /\ llamaInitFlag' = "running"
     /\ pc' = [pc EXCEPT ![t] = "im_backend"]
  \/ /\ llamaInitFlag = "done"
     /\ llamaInitFlag' = llamaInitFlag
     /\ pc' = [pc EXCEPT ![t] = "im_load"]

\* std::call_once(llamaInitFlag, ...): the first caller runs the function,
\* callers that arrive while it runs wait, later callers pass.
CallOnceBody(t) ==
  \/ /\ llamaInitFlag = "none"
     /\ llamaInitFlag' = "running"
     /\ pc' = [pc EXCEPT ![t] = "im_backend"]
  \/ /\ llamaInitFlag = "done"
     /\ llamaInitFlag' = llamaInitFlag
     /\ pc' = [pc EXCEPT ![t] = "im_load"]

CallOnce(t) ==
  /\ Running /\ pc[t] = "im_once"
  /\ CallOnceBody(t)
  /\ UNCHANGED <<slotVars, managerMutex, backendInits, constructed, crashed,
                 calls, nullUse, op, cur, argPath, kstep, success, ret, cause,
                 engineCalls, iter, retText, scoreVars, parseVars, apiVars,
                 samplingVars>>

\* llama_backend_init(), run inside call_once
BackendInit(t) ==
  /\ Running /\ pc[t] = "im_backend"
  /\ backendInits' = backendInits + 1
  /\ llamaInitFlag' = "done"
  /\ pc' = [pc EXCEPT ![t] = "im_load"]
  /\ UNCHANGED <<slotVars, managerMutex, constructed, crashed, calls, nullUse,
                 op, cur, argPath, kstep, success, ret, cause, engineCalls,
                 iter, retText, scoreVars, parseVars, apiVars,
                 samplingVars>>

\* instance->model = llama_model_load_from_file(...); if (!instance->model) return false
LoadModel(t) ==
  /\ Running /\ pc[t] = "im_load"
  /\ \E ok \in LoadOutcomes(argPath[t]) :
       /\ model' = [model EXCEPT ![cur[t]] = ok]
       /\ IF ok
          THEN /\ pc' = [pc EXCEPT ![t] = "im_context"]
               /\ UNCHANGED <<modelMutex, kstep, cur, argPath, success, ret>>
          ELSE /\ modelMutex' = ReleaseSlot(cur[t])
               /\ InitReturns(t, FALSE)
  /\ UNCHANGED <<context, isLoaded, modelPath, usageCount, procVars, op, cause,
                 engineCalls, iter, retText, scoreVars, parseVars, apiVars,
                 samplingVars>>

\* the context-failure path without the free and reset of the model handle
ModelKeptAfterContextFailure(s) == model

\* llama_model_free(instance->model); instance->model = nullptr;
ModelAfterContextFailure(s) == [model EXCEPT ![s] = FALSE]

\* instance->context = llama_init_from_model(...); on failure the model is
\* freed and reset before returning false
CreateContext(t) ==
  /\ Running /\ pc[t] = "im_context"
  /\ \E ok \in ContextOutcomes :
       /\ context' = [context EXCEPT ![cur[t]] = ok]
       /\ IF ok
          THEN /\ pc' = [pc EXCEPT ![t] = "im_finish"]
               /\ UNCHANGED <<model, modelMutex, kstep, cur, argPath, success, ret>>
          ELSE /\ model' = ModelAfterContextFailure(cur[t])
               /\ modelMutex' = ReleaseSlot(cur[t])
               /\ InitReturns(t, FALSE)
  /\ UNCHANGED <<isLoaded, modelPath, usageCount, procVars, op, cause,
                 engineCalls, iter, retText, scoreVars, parseVars, apiVars,
                 samplingVars>>

\* modelPath, modelName, isLoaded = true, lastUsed; return true
FinishInit(t) ==
  /\ Running /\ pc[t] = "im_finish"
  /\ modelPath' = [modelPath EXCEPT ![cur[t]] = argPath[t]]
  /\ isLoaded' = [isLoaded EXCEPT ![cur[t]] = TRUE]
  /\ modelMutex' = ReleaseSlot(cur[t])
  /\ InitReturns(t, TRUE)
  /\ UNCHANGED <<model, context, usageCount, procVars, op, cause, engineCalls,
                 iter, retText, scoreVars, parseVars, apiVars,
                 samplingVars>>

\* ----------------------------------------------------------- constructor
\* a constructor that joins its first task only
JoinedFirstOnly == {1}

\* for (auto &thread : initThreads) thread.join();
JoinedThreads == Loaders
ConstructorReturns ==
  /\ Running /\ ~constructed
  /\ \A t \in JoinedThreads : pc[t] = "done"
  /\ constructed' = TRUE
  /\ UNCHANGED <<slotVars, managerMutex, llamaInitFlag, backendInits, crashed,
                 calls, nullUse, threadVars, scoreVars, parseVars, apiVars,
                 samplingVars>>

\* ---------------------------------------------------------- cleanupModel
\* std::lock_guard<std::mutex> lock(instance->modelMutex)
CleanupLock(t) ==
  /\ Running /\ pc[t] = "cl_lock"
  /\ modelMutex[cur[t]] = NoThread
  /\ modelMutex' = [modelMutex EXCEPT ![cur[t]] = t]
  /\ pc' = [pc EXCEPT ![t] = "cl_context"]
  /\ UNCHANGED <<model, context, isLoaded, modelPath, usageCount, procVars,
                 op, cur, argPath, kstep, success, ret, cause, engineCalls,
                 iter, retText, scoreVars, parseVars, apiVars,
                 samplingVars>>

\* if (instance->context) { llama_free(...); instance->context = nullptr; }
CleanupContext(t) ==
  /\ Running /\ pc[t] = "cl_context"
  /\ context' = [context EXCEPT ![cur[t]] = FALSE]
  /\ pc' = [pc EXCEPT ![t] = "cl_model"]
  /\ UNCHANGED <<model, isLoaded, modelPath, usageCount, modelMutex, procVars,
                 op, cur, argPath, kstep, success, ret, cause, engineCalls,
                 iter, retText, scoreVars, parseVars, apiVars,
                 samplingVars>>

\* if (instance->model) { llama_model_free(...); instance->model = nullptr; }
CleanupModelHandle(t) ==
  /\ Running /\ pc[t] = "cl_model"
  /\ model' = [model EXCEPT ![cur[t]] = FALSE]
  /\ pc' = [pc EXCEPT ![t] = "cl_flag"]
  /\ UNCHANGED <<context, isLoaded, modelPath, usageCount, modelMutex, procVars,
                 op, cur, argPath, kstep, success, ret, cause, engineCalls,
                 iter, retText, scoreVars, parseVars, apiVars,
                 samplingVars>>

\* instance->isLoaded = false; the lock is released on return.  reloadModels
\* then cleans the next slot, or starts the three initializeModel calls with
\* each slot's own modelPath.
CleanupFlag(t) ==
  /\ Running /\ pc[t] = "cl_flag"
  /\ isLoaded' = [isLoaded EXCEPT ![cur[t]] = FALSE]
  /\ modelMutex' = ReleaseSlot(cur[t])
  /\ IF kstep[t] < 3
     THEN /\ kstep' = [kstep EXCEPT ![t] = kstep[t] + 1]
          /\ cur' = [cur EXCEPT ![t] = SlotOrder[kstep[t] + 1]]
          /\ pc' = [pc EXCEPT ![t] = "cl_lock"]
          /\ UNCHANGED <<argPath, success>>
     ELSE /\ kstep' = [kstep EXCEPT ![t] = 1]
          /\ cur' = [cur EXCEPT ![t] = SlotOrder[1]]
          /\ argPath' = [argPath EXCEPT ![t] = modelPath[SlotOrder[1]]]
          /\ success' = [success EXCEPT ![t] = TRUE]
          /\ pc' = [pc EXCEPT ![t] = "im_lock"]
  /\ UNCHANGED <<model, context, modelPath, usageCount, procVars, op, ret,
                 cause, engineCalls, iter, retText, scoreVars, parseVars, apiVars,
                 samplingVars>>

\* ---------------------------------------------------------- reloadModels
\* a worker calls reloadModels()
StartReload(t) ==
  /\ Running /\ constructed /\ t \in Workers
  /\ pc[t] = "idle" /\ calls < MaxCalls
  /\ calls' = calls + 1
  /\ op' = [op EXCEPT ![t] = "reload"]
  /\ pc' = [pc EXCEPT ![t] = "rl_lock"]
  /\ ret' = [ret EXCEPT ![t] = "none"]
  /\ UNCHANGED <<slotVars, managerMutex, llamaInitFlag, backendInits,
                 constructed, crashed, nullUse, cur, argPath, kstep, success,
                 cause, engineCalls, iter, retText, scoreVars, parseVars, apiVars,
                 samplingVars>>

\* std::lock_guard<std::mutex> lock(managerMutex)
ReloadLock(t) ==
  /\ Running /\ pc[t] = "rl_lock"
  /\ managerMutex = NoThread
  /\ managerMutex' = t
  /\ kstep' = [kstep EXCEPT ![t] = 1]
  /\ cur' = [cur EXCEPT ![t] = SlotOrder[1]]
  /\ pc' = [pc EXCEPT ![t] = "cl_lock"]
  /\ UNCHANGED <<slotVars, llamaInitFlag, backendInits, constructed, crashed,
                 calls, nullUse, op, argPath, success, ret, cause, engineCalls,
                 iter, retText, scoreVars, parseVars, apiVars,
                 samplingVars>>

\* return success; the manager lock is released
ReloadReturn(t) ==
  /\ Running /\ pc[t] = "rl_return"
  /\ managerMutex' = NoThread
  /\ ret' = [ret EXCEPT ![t] = IF success[t] THEN "true" ELSE "false"]
  /\ pc' = [pc EXCEPT ![t] = "returned"]
  /\ UNCHANGED <<slotVars, llamaInitFlag, backendInits, constructed, crashed,
                 calls, nullUse, op, cur, argPath, kstep, success, cause,
                 engineCalls, iter, retText, scoreVars, parseVars, apiVars,
                 samplingVars>>

\* the caller takes the result; the worker is free for the next request
CallEnds(t) ==
  /\ Running /\ pc[t] = "returned"
  /\ pc' = [pc EXCEPT ![t] = "idle"]
  /\ op' = [op EXCEPT ![t] = "none"]
  /\ ret' = [ret EXCEPT ![t] = "none"]
  /\ cause' = [cause EXCEPT ![t] = "none"]
  /\ engineCalls' = [engineCalls EXCEPT ![t] = 0]
  /\ iter' = [iter EXCEPT ![t] = 0]
  /\ kstep' = [kstep EXCEPT ![t] = 0]
  /\ success' = [success EXCEPT ![t] = TRUE]
  /\ argPath' = [argPath EXCEPT ![t] = ""]
  /\ cur' = [cur EXCEPT ![t] = "quiz"]
  /\ retText' = [retText EXCEPT ![t] = EmptyText]
  /\ UNCHANGED <<slotVars, procVars, scoreVars, parseVars, apiVars,
                 samplingVars>>

\* --------------------------------------------------------- isModelLoaded
\* return instance->isLoaded && instance->model && instance->context;
\* evaluated with the slot's lock taken and released inside the call
isModelLoaded(s) == isLoaded[s] /\ model[s] /\ context[s]

\* ---------------------------------------------------------- generateText
TextAppend(r, l, m) == [len |-> r.len + l, marker |-> r.marker \/ m]

\* the test with >= in place of >
EarlyStopInclusive(r) == r.marker /\ r.len >= EarlyStopLen

\* response.find("Answer:") != npos && response.length() > 50
EarlyStop(r) == r.marker /\ r.len > EarlyStopLen

\* a worker calls generateText(slot, prompt)
StartGenerate(t, s) ==
  /\ Running /\ constructed /\ t \in Workers
  /\ pc[t] = "idle" /\ calls < MaxCalls
  /\ calls' = calls + 1
  /\ op' = [op EXCEPT ![t] = "generate"]
  /\ cur' = [cur EXCEPT ![t] = s]
  /\ pc' = [pc EXCEPT ![t] = "gt_check"]
  /\ UNCHANGED <<slotVars, managerMutex, llamaInitFlag, backendInits,
                 constructed, crashed, nullUse, argPath, kstep, success, ret,
                 cause, engineCalls, iter, retText, scoreVars, parseVars, apiVars,
                 samplingVars>>

\* return "" out of generateText, releasing the lock when it is held
GenReturnsEmpty(t, why) ==
  /\ pc' = [pc EXCEPT ![t] = "returned"]
  /\ cause' = [cause EXCEPT ![t] = why]
  /\ retText' = [retText EXCEPT ![t] = EmptyText]

\* if (!instance || !isModelLoaded(instance)) return "";
GenCheck(t) ==
  /\ Running /\ pc[t] = "gt_check"
  /\ modelMutex[cur[t]] = NoThread
  /\ IF isModelLoaded(cur[t])
     THEN /\ pc' = [pc EXCEPT ![t] = "gt_lock"]
          /\ UNCHANGED <<cause, retText>>
     ELSE GenReturnsEmpty(t, "not_loaded")
  /\ UNCHANGED <<slotVars, procVars, op, cur, argPath, kstep, success, ret,
                 engineCalls, iter, scoreVars, parseVars, apiVars,
                 samplingVars>>

\* generateText going on without waiting for the slot's lock
GenLocksWithoutWaiting(t) == TRUE

\* std::lock_guard<std::mutex> lock(instance->modelMutex): blocks while held
GenMayLock(t) == modelMutex[cur[t]] = NoThread

GenLock(t) ==
  /\ Running /\ pc[t] = "gt_lock"
  /\ GenMayLock(t)
  /\ modelMutex' = [modelMutex EXCEPT ![cur[t]] = t]
  /\ pc' = [pc EXCEPT ![t] = "gt_count"]
  /\ UNCHANGED <<model, context, isLoaded, modelPath, usageCount, procVars,
                 op, cur, argPath, kstep, success, ret, cause, engineCalls,
                 iter, retText, scoreVars, parseVars, apiVars,
                 samplingVars>>

\* instance->usageCount++; instance->lastUsed = now
GenCount(t) ==
  /\ Running /\ pc[t] = "gt_count"
  /\ usageCount' = [usageCount EXCEPT ![cur[t]] = usageCount[cur[t]] + 1]
  /\ pc' = [pc EXCEPT ![t] = "gt_tokenize"]
  /\ UNCHANGED <<model, context, isLoaded, modelPath, modelMutex, procVars,
                 op, cur, argPath, kstep, success, ret, cause, engineCalls,
                 iter, retText, scoreVars, parseVars, apiVars,
                 samplingVars>>

\* n_tokens = llama_tokenize(llama_model_get_vocab(instance->model), ...);
\* if (n_tokens < 0) return "";
GenTokenize(t) ==
  /\ Running /\ pc[t] = "gt_tokenize"
  /\ engineCalls' = [engineCalls EXCEPT ![t] = engineCalls[t] + 1]
  /\ nullUse' = (nullUse \/ ~model[cur[t]])
  /\ \E o \in EngineOutcomes(model[cur[t]]) :
       \/ /\ o = "ok"
          /\ pc' = [pc EXCEPT ![t] = "gt_decode"]
          /\ UNCHANGED <<modelMutex, cause, retText, crashed>>
       \/ /\ o = "fail"
          /\ modelMutex' = ReleaseSlot(cur[t])
          /\ GenReturnsEmpty(t, "tokenize")
          /\ UNCHANGED crashed
       \/ /\ o = "crash"
          /\ crashed' = TRUE
          /\ UNCHANGED <<pc, modelMutex, cause, retText>>
  /\ UNCHANGED <<model, context, isLoaded, modelPath, usageCount, managerMutex,
                 llamaInitFlag, backendInits, constructed, calls, op, cur,
                 argPath, kstep, success, ret, iter, scoreVars, parseVars, apiVars,
                 samplingVars>>

\* llama_kv_self_clear(instance->context);
\* if (llama_decode(instance->context, batch) != 0) return "";
GenDecode(t) ==
  /\ Running /\ pc[t] = "gt_decode"
  /\ engineCalls' = [engineCalls EXCEPT ![t] = engineCalls[t] + 1]
  /\ nullUse' = (nullUse \/ ~context[cur[t]])
  /\ \E o \in EngineOutcomes(context[cur[t]]) :
       \/ /\ o = "ok"
          /\ pc' = [pc EXCEPT ![t] = "gt_sample"]
          /\ iter' = [iter EXCEPT ![t] = 0]
          /\ UNCHANGED <<modelMutex, cause, retText, crashed>>
       \/ /\ o = "fail"
          /\ modelMutex' = ReleaseSlot(cur[t])
          /\ GenReturnsEmpty(t, "decode")
          /\ UNCHANGED <<crashed, iter>>
       \/ /\ o = "crash"
          /\ crashed' = TRUE
          /\ UNCHANGED <<pc, modelMutex, cause, retText, iter>>
  /\ UNCHANGED <<model, context, isLoaded, modelPath, usageCount, managerMutex,
                 llamaInitFlag, backendInits, constructed, calls, op, cur,
                 argPath, kstep, success, ret, scoreVars, parseVars, apiVars,
                 samplingVars>>

\* The sampling loop for (int i = 0; i < maxTokens; ++i), as a function of
\* what the engine answers.  A loop state is the counter i, the text so far
\* and why the loop was left ("none" while it runs).
\* sampled counts the tokens picked, appended the fragments added to response.
LoopStart == [i |-> 0, response |-> EmptyText, exit |-> "none",
              sampled |-> 0, appended |-> 0]

\* one iteration: pick the token; break on end-of-sequence; append its piece
\* (when token_len > 0); break when decoding it fails; break on the early-stop
\* test; otherwise ++i
SampleStep(st) ==
  {[st EXCEPT !.exit = "eos", !.sampled = st.sampled + 1]} \cup
  {LET r == TextAppend(st.response, x[1], x[2])
       n == [st EXCEPT !.response = r, !.sampled = st.sampled + 1,
                       !.appended = st.appended + (IF x[1] > 0 THEN 1 ELSE 0)]
   IN  IF ~x[3] THEN [n EXCEPT !.exit = "decode_step"]
       ELSE IF EarlyStop(r) THEN [n EXCEPT !.exit = "early_stop"]
       ELSE [n EXCEPT !.i = st.i + 1]
   : x \in {y \in PieceLens \X BOOLEAN \X BOOLEAN : y[2] => (y[1] > 0)}}

\* the loop test with <= in place of <
LoopGoesOnInclusive(i, cap) == i <= cap

\* i < maxTokens
LoopGoesOn(i, cap) == i < cap

RECURSIVE LoopFinals(_)
LoopFinals(st) ==
  IF st.exit # "none" THEN {st}
  ELSE IF ~LoopGoesOn(st.i, MaxTokens) THEN {[st EXCEPT !.exit = "cap"]}
  ELSE UNION {LoopFinals(n) : n \in SampleStep(st)}

\* every way the loop can end
LoopOutcomes == LoopFinals(LoopStart)

\* the whole loop, run with the slot's lock held, and the return of response
\* that follows it (the lock is released); the loop reads the slot's model and
\* context handles in every iteration
GenSample(t) ==
  /\ Running /\ pc[t] = "gt_sample"
  /\ engineCalls' = [engineCalls EXCEPT ![t] = engineCalls[t] + 1]
  /\ nullUse' = (nullUse \/ ~model[cur[t]] \/ ~context[cur[t]])
  /\ \/ /\ ~(model[cur[t]] /\ context[cur[t]])
        /\ crashed' = TRUE
        /\ UNCHANGED <<pc, cause, iter, retText, modelMutex>>
     \/ \E fin \in LoopOutcomes :
          /\ pc' = [pc EXCEPT ![t] = "returned"]
          /\ cause' = [cause EXCEPT ![t] = fin.exit]
          /\ iter' = [iter EXCEPT ![t] = fin.sampled]
          /\ retText' = [retText EXCEPT ![t] = fin.response]
          /\ modelMutex' = ReleaseSlot(cur[t])
          /\ UNCHANGED crashed
  /\ UNCHANGED <<model, context, isLoaded, modelPath, usageCount, managerMutex,
                 llamaInitFlag, backendInits, constructed, calls, op, cur,
                 argPath, kstep, success, ret, scoreVars, parseVars, apiVars,
                 samplingVars>>

\* --------------------------------------------------------- configuration
\* A float is a number of hundredths, not-a-number, or an infinity.
Num(v) == [kind |-> "num", v |-> v]
NaN == [kind |-> "nan", v |-> 0]
PlusInf == [kind |-> "inf", v |-> 1]
MinusInf == [kind |-> "inf", v |-> -1]

\* a < b on floats: false when either side is not a number
FLess(a, b) ==
  IF a.kind = "nan" \/ b.kind = "nan" THEN FALSE
  ELSE IF a.kind = "inf" THEN a.v < 0 /\ ~(b.kind = "inf" /\ b.v < 0)
  ELSE IF b.kind = "inf" THEN b.v > 0
  ELSE a.v < b.v

\* a <= b on floats
FLessEq(a, b) ==
  /\ a.kind # "nan" /\ b.kind # "nan"
  /\ (FLess(a, b) \/ a = b)

\* std::min(a, b) is (b < a) ? b : a and std::max(a, b) is (a < b) ? b : a
FMin(a, b) == IF FLess(b, a) THEN b ELSE a
FMax(a, b) == IF FLess(a, b) THEN b ELSE a
IMin(a, b) == IF b < a THEN b ELSE a
IMax(a, b) == IF a < b THEN b ELSE a

\* the setter without the lower limit
ClampedTemperatureNoFloor(temp) == FMin(Num(150), temp)

\* std::max(0.1f, std::min(1.5f, temp))
ClampedTemperature(temp) == FMax(Num(10), FMin(Num(150), temp))
\* std::max(32, std::min(256, tokens))
ClampedMaxTokens(tokens) == IMax(32, IMin(256, tokens))
\* std::max(512, std::min(2048, size))
ClampedContextSize(size) == IMax(512, IMin(2048, size))

\* contextSize(1024), maxTokens(128), temperature(0.7); no sampling yet
SamplingInit ==
  /\ temperature = Num(70)
  /\ maxTokens = 128
  /\ contextSize = 1024
  /\ branch = "none"
  /\ loop = LoopStart


\* ====================================================== response parsers
\* A text is a sequence of characters (one-character strings).
MarkerLetters == {"A", "B", "C"}
\* \s, for the characters a text here is made of
IsSpace(c) == c \in {" ", "\n"}
\* [^AB\n]
InCapture(c) == c \notin {"A", "B", "\n"}

SetMax(S) == CHOOSE x \in S : \A y \in S : y <= x
SetMin(S) == CHOOSE x \in S : \A y \in S : x <= y

NoMatch == [start |-> 0, stop |-> 0]

\* [ABC]\)\s*([^AB\n]+) tried at position p: the greedy \s* gives back
\* characters until the group can take one; the group is greedy
OptionMatchAt(txt, p) ==
  IF p + 1 <= Len(txt) /\ txt[p] \in MarkerLetters /\ txt[p + 1] = ")"
  THEN LET starts == {j \in (p + 2)..Len(txt) :
                        /\ InCapture(txt[j])
                        /\ \A i \in (p + 2)..(j - 1) : IsSpace(txt[i])}
       IN  IF starts = {} THEN NoMatch
           ELSE LET j == SetMax(starts)
                    k == SetMax({e \in j..Len(txt) : \A i \in j..e : InCapture(txt[i])})
                IN  [start |-> j, stop |-> k]
  ELSE NoMatch

\* std::sregex_iterator: the groups of the successive leftmost matches
RECURSIVE OptionMatches(_, _)
OptionMatches(txt, from) ==
  LET ps == {p \in from..Len(txt) : OptionMatchAt(txt, p) # NoMatch}
  IN  IF ps = {} THEN <<>>
      ELSE LET m == OptionMatchAt(txt, SetMin(ps))
           IN  <<SubSeq(txt, m.start, m.stop)>> \o OptionMatches(txt, m.stop + 1)

\* regex_replace(s, \s+, " ")
RECURSIVE CollapseSpaces(_)
CollapseSpaces(s) ==
  IF s = <<>> THEN <<>>
  ELSE IF IsSpace(Head(s))
       THEN IF Len(s) > 1 /\ IsSpace(s[2]) THEN CollapseSpaces(Tail(s))
            ELSE <<" ">> \o CollapseSpaces(Tail(s))
       ELSE <<Head(s)>> \o CollapseSpaces(Tail(s))

\* regex_replace(s, ^\s+|\s+$, "")
Trim(s) ==
  LET keep == {i \in 1..Len(s) : ~IsSpace(s[i])}
  IN  IF keep = {} THEN <<>> ELSE SubSeq(s, SetMin(keep), SetMax(keep))

\* regex_replace(s, [,;]\s*$, "")
StripSeparator(s) ==
  LET hits == {i \in 1..Len(s) :
                 s[i] \in {",", ";"} /\ \A j \in (i + 1)..Len(s) : IsSpace(s[j])}
  IN  IF hits = {} THEN s ELSE SubSeq(s, 1, SetMin(hits) - 1)

CleanOption(s) == StripSeparator(Trim(CollapseSpaces(s)))

\* the std::string of a character sequence
RECURSIVE Str(_)
Str(s) == IF s = <<>> THEN "" ELSE Head(s) \o Str(Tail(s))

\* the test without the emptiness check
AcceptsEmpty(answer, sofar) == Len(sofar) < 3

\* if (!answer.empty() && answers.size() < 3)
Accepts(answer, sofar) == answer # "" /\ Len(sofar) < 3

\* the loop over the matches
RECURSIVE Collect(_, _)
Collect(ms, sofar) ==
  IF ms = <<>> THEN sofar
  ELSE LET answer == Str(CleanOption(Head(ms)))
       IN  Collect(Tail(ms), IF Accepts(answer, sofar) THEN Append(sofar, answer) ELSE sofar)

\* "Option " + std::to_string(answers.size() + 1)
AnswerPlaceholder(size) == "Option " \o ToString(size + 1)

\* one placeholder for every slot
OptionPlaceholderNeutral(size) == "Neutral"

\* size 0: "Strongly agree", size 1: "Neutral", else "Strongly disagree"
OptionPlaceholder(size) ==
  IF size = 0 THEN "Strongly agree"
  ELSE IF size = 1 THEN "Neutral"
  ELSE "Strongly disagree"

\* while (answers.size() < 3) answers.push_back(...)
RECURSIVE PadAnswers(_)
PadAnswers(as) ==
  IF Len(as) < 3 THEN PadAnswers(Append(as, AnswerPlaceholder(Len(as)))) ELSE as

RECURSIVE PadOptions(_)
PadOptions(os) ==
  IF Len(os) < 3 THEN PadOptions(Append(os, OptionPlaceholder(Len(os)))) ELSE os

\* std::vector<std::string>(v.begin(), v.begin() + 3)
FirstThree(v) == SubSeq(v, 1, 3)

extractAnswers(txt) == FirstThree(PadAnswers(Collect(OptionMatches(txt, 1), <<>>)))
extractPsychologyOptions(txt) == FirstThree(PadOptions(Collect(OptionMatches(txt, 1), <<>>)))

\* Answer:\s*([ABC]) tried at position p: the position of the letter, or 0
\* when it does not match
AnswerWord == <<"A", "n", "s", "w", "e", "r", ":">>
AnswerLetterAt(txt, p) ==
  IF p + Len(AnswerWord) - 1 <= Len(txt) /\ SubSeq(txt, p, p + Len(AnswerWord) - 1) = AnswerWord
  THEN LET after == p + Len(AnswerWord)
           ls == {j \in after..Len(txt) :
                    txt[j] \in MarkerLetters /\ \A i \in after..(j - 1) : IsSpace(txt[i])}
       IN  IF ls = {} THEN 0 ELSE SetMin(ls)
  ELSE 0

\* std::regex_search: the leftmost match
AnswerMatches(txt) == {p \in 1..Len(txt) : AnswerLetterAt(txt, p) # 0}
\* the letter of the rightmost match
LastAnswerLetter(txt) == txt[AnswerLetterAt(txt, SetMax(AnswerMatches(txt)))]

FirstAnswerLetter(txt) == txt[AnswerLetterAt(txt, SetMin(AnswerMatches(txt)))]

\* answer_char - 'A'
LetterIndex(c) == CASE c = "A" -> 0 [] c = "B" -> 1 [] OTHER -> 2

\* std::discrete_distribution<> dist({50, 30, 20})
FallbackIndexes == {0, 1, 2}

\* the values extractCorrectAnswer can return, with whether the random
\* fallback gave them
extractCorrectAnswer(txt) ==
  IF AnswerMatches(txt) # {}
  THEN {[index |-> LetterIndex(FirstAnswerLetter(txt)), fallback |-> FALSE]}
  ELSE {[index |-> i, fallback |-> TRUE] : i \in FallbackIndexes}

\* fragments of model output
Pieces ==
  { <<"A", ")", "x">>,
    <<"B", ")", " ", ",">>,
    <<"C", ")", "y", " ">>,
    <<"\n">>,
    AnswerWord,
    <<" ", "C">>,
    <<"B">> }

RECURSIVE Concat(_)
Concat(ps) == IF ps = <<>> THEN <<>> ELSE Head(ps) \o Concat(Tail(ps))

\* the texts made of at most MaxPieces fragments
Texts == {Concat(ps) : ps \in UNION {[1..k -> Pieces] : k \in 0..MaxPieces}}

ParseIdle ==
  /\ text = <<>>
  /\ ppc = "off"
  /\ entries = <<>>
  /\ correctIdx = 0
  /\ usedFallback = FALSE

\* no question-generation request
NoQuestion ==
  [question |-> <<>>, answers |-> <<>>, correctAnswerIndex |-> 0, category |-> "",
   difficulty |-> "", generated |-> FALSE, aiModel |-> ""]
NoRequest == [kind |-> "none", category |-> "", difficulty |-> "", count |-> 0]

ApiIdle ==
  /\ rpc = "off"
  /\ req = NoRequest
  /\ question = NoQuestion
  /\ questions = <<>>
  /\ httpStatus = 0
  /\ genCalls = 0
  /\ aiResponse = <<>>
  /\ prompt = ""
  /\ psychIdx = 0

\* question.answers = extractAnswers(response)
ExtractAnswers ==
  /\ ppc = "input"
  /\ entries' = extractAnswers(text)
  /\ ppc' = "answers"
  /\ UNCHANGED <<text, correctIdx, usedFallback, engineVars, scoreVars, apiVars,
                 samplingVars>>

\* question.options = extractPsychologyOptions(response)
ExtractPsychologyOptions ==
  /\ ppc = "input"
  /\ entries' = extractPsychologyOptions(text)
  /\ ppc' = "options"
  /\ UNCHANGED <<text, correctIdx, usedFallback, engineVars, scoreVars, apiVars,
                 samplingVars>>

\* question.correctAnswerIndex = extractCorrectAnswer(response)
ExtractCorrectAnswer ==
  /\ ppc = "input"
  /\ \E r \in extractCorrectAnswer(text) :
       /\ correctIdx' = r.index
       /\ usedFallback' = r.fallback
  /\ ppc' = "correct"
  /\ UNCHANGED <<text, entries, engineVars, scoreVars, apiVars,
                 samplingVars>>

\* ==================================================== personality scoring
\* Scores are fractions of Unit (Unit stands for 1.0); Unit is chosen so that
\* every halving of calculateTraitScores is exact for MaxAnswers answers.
Unit == 10 * (2 ^ MaxAnswers)
Half == Unit \div 2

Letters == {"E", "I", "S", "N", "T", "F", "J", "P"}
Dichotomies == <<"E/I", "S/N", "T/F", "J/P">>
First(d) == CASE d = "E/I" -> "E" [] d = "S/N" -> "S" [] d = "T/F" -> "T" [] OTHER -> "J"
Second(d) == CASE d = "E/I" -> "I" [] d = "S/N" -> "N" [] d = "T/F" -> "F" [] OTHER -> "P"

\* PersonalityAnswer values the HTTP handler can hand over
QuestionIds == 0..8
Options == 0..3
Traits == {"E/I", "J/P"}
AnswerValues == [questionId : QuestionIds, selectedOption : Options, trait : Traits]

\* scores["E"] = 0.5; ... scores["P"] = 0.5;
InitialScores == [l \in Letters |-> Half]

\* the mapping with the ranges cut one id earlier
TraitOfAnswerStrict(a) ==
  IF a.questionId < 2 THEN "E/I"
  ELSE IF a.questionId < 4 THEN "S/N"
  ELSE IF a.questionId < 6 THEN "T/F"
  ELSE "J/P"

\* the mapping taken from the answer's declared trait
TraitOfAnswerByLabel(a) == a.trait

\* if (questionId <= 2) "E/I" else if (<= 4) "S/N" else if (<= 6) "T/F" else "J/P"
TraitOfAnswer(a) ==
  IF a.questionId <= 2 THEN "E/I"
  ELSE IF a.questionId <= 4 THEN "S/N"
  ELSE IF a.questionId <= 6 THEN "T/F"
  ELSE "J/P"

\* the directional score with the ends at 1.0 and 0.0
DirectionalScoreExtreme(a) ==
  IF a.selectedOption = 0 THEN Unit
  ELSE IF a.selectedOption = 2 THEN 0
  ELSE Half

\* the directional score with the two ends exchanged
DirectionalScoreSwapped(a) ==
  IF a.selectedOption = 0 THEN (2 * Unit) \div 10
  ELSE IF a.selectedOption = 2 THEN (8 * Unit) \div 10
  ELSE Half

\* double score = 0.5; if (selectedOption == 0) 0.8; else if (== 2) 0.2;
DirectionalScore(a) ==
  IF a.selectedOption = 0 THEN (8 * Unit) \div 10
  ELSE IF a.selectedOption = 2 THEN (2 * Unit) \div 10
  ELSE Half

\* the update as the mean of the neutral value and the new score, whatever
\* the score was before
UpdatePairFromNeutral(sc, d, score) ==
  LET positive == (Half + score) \div 2
  IN  [sc EXCEPT ![First(d)] = positive, ![Second(d)] = Unit - positive]

\* the update without the complement assignment
UpdateFirstOnly(sc, d, score) ==
  [sc EXCEPT ![First(d)] = (sc[First(d)] + score) \div 2]

\* scores[first] = (scores[first] + score) / 2.0; scores[second] = 1.0 - scores[first];
UpdatePair(sc, d, score) ==
  LET positive == (sc[First(d)] + score) \div 2
  IN  [sc EXCEPT ![First(d)] = positive, ![Second(d)] = Unit - positive]

\* the body of the loop over the answers
ApplyAnswer(sc, a) == UpdatePair(sc, TraitOfAnswer(a), DirectionalScore(a))

RECURSIVE ScoresFrom(_, _)
ScoresFrom(sc, as) ==
  IF as = <<>> THEN sc ELSE ScoresFrom(ApplyAnswer(sc, Head(as)), Tail(as))

calculateTraitScores(as) == ScoresFrom(InitialScores, as)

\* the comparison with >= in place of >
PickLetterTieFirst(sc, d) == IF sc[First(d)] >= sc[Second(d)] THEN First(d) ELSE Second(d)

\* type += (scores.at("E") > scores.at("I")) ? "E" : "I"; ...
PickLetter(sc, d) == IF sc[First(d)] > sc[Second(d)] THEN First(d) ELSE Second(d)

determinePersonalityType(sc) == [k \in 1..4 |-> PickLetter(sc, Dichotomies[k])]

\* confidence = min(1.0, totalConfidence / scores.size() * 2.0), as a fraction
\* of ConfidenceUnit (= 1.0)
Abs(x) == IF x < 0 THEN -x ELSE x
ConfidenceUnit == 4 * Unit
\* the sum taken over the first letter of each pair only
TotalConfidenceFirstLetters(sc) ==
  Abs(sc["E"] - Half) + Abs(sc["S"] - Half) + Abs(sc["T"] - Half) + Abs(sc["J"] - Half)

\* the loop over the eight entries of result.scores
TotalConfidence(sc) ==
  Abs(sc["E"] - Half) + Abs(sc["I"] - Half) + Abs(sc["S"] - Half) + Abs(sc["N"] - Half)
  + Abs(sc["T"] - Half) + Abs(sc["F"] - Half) + Abs(sc["J"] - Half) + Abs(sc["P"] - Half)
Confidence(sc) ==
  IF TotalConfidence(sc) > ConfidenceUnit THEN ConfidenceUnit ELSE TotalConfidence(sc)

NoResult == [scores |-> InitialScores, personalityType |-> <<>>, confidence |-> 0]

\* result.scores, result.personalityType and result.confidence of analyzePersonality
analyzePersonality(as) ==
  LET sc == calculateTraitScores(as)
  IN  [scores |-> sc,
       personalityType |-> determinePersonalityType(sc),
       confidence |-> Confidence(sc)]

\* the handler appends one parsed answer to the vector it will pass
ReceiveAnswer ==
  /\ apc = "input"
  /\ Len(answers) < MaxAnswers
  /\ \E a \in AnswerValues : answers' = Append(answers, a)
  /\ UNCHANGED <<apc, result, engineVars, parseVars, apiVars,
                 samplingVars>>

\* analyzePersonality(answers) with the analysis slot not loaded: the stored
\* description is used and generateText is not called
AnalyzePersonality ==
  /\ apc = "input"
  /\ ~isModelLoaded("analysis")
  /\ result' = analyzePersonality(answers)
  /\ apc' = "done"
  /\ UNCHANGED <<answers, engineVars, parseVars, apiVars,
                 samplingVars>>

ScoreNext == ReceiveAnswer \/ AnalyzePersonality

ScoreInit ==
  /\ EngineInit
  /\ ParseIdle
  /\ SamplingInit
  /\ ApiIdle
  /\ answers = <<>>
  /\ apc = "input"
  /\ result = NoResult

SpecScore == ScoreInit /\ [][ScoreNext]_vars

\* ------------------------------------------- four-answer questionnaires
\* one answer per dichotomy, in the order of the ids: the i-th answer has id
\* 2i-1 or 2i
FourAnswers ==
  {as \in [1..4 -> AnswerValues] :
     \A i \in 1..4 : /\ as[i].questionId \in {2 * i - 1, 2 * i}
                     /\ as[i].selectedOption \in 0..2
                     /\ as[i].trait = "E/I"}

FourInit ==
  /\ EngineInit
  /\ ParseIdle
  /\ SamplingInit
  /\ ApiIdle
  /\ answers \in FourAnswers
  /\ apc = "input"
  /\ result = NoResult

SpecFour == FourInit /\ [][AnalyzePersonality]_vars

\* ============================================== question-generation calls
\* Question:\s*([^?]+\?) tried at position p: the greedy \s* leaves at least
\* one character for the group, which runs to the first '?'
QuestionWord == <<"Q", "u", "e", "s", "t", "i", "o", "n", ":">>
QuestionMatchAt(txt, p) ==
  IF p + Len(QuestionWord) - 1 <= Len(txt)
     /\ SubSeq(txt, p, p + Len(QuestionWord) - 1) = QuestionWord
  THEN LET after == p + Len(QuestionWord)
           marks == {q \in (after + 1)..Len(txt) : txt[q] = "?"}
       IN  IF marks = {} \/ (after <= Len(txt) /\ txt[after] = "?") THEN NoMatch
           ELSE LET q == SetMin(marks)
                    starts == {j \in after..(q - 1) : \A i \in after..(j - 1) : IsSpace(txt[i])}
                IN  [start |-> SetMax(starts), stop |-> q]
  ELSE NoMatch

\* ([^.!?]*\?) tried at position p
SentenceMatchAt(txt, p) ==
  LET ends == {e \in p..Len(txt) : txt[e] \in {".", "!", "?"}}
  IN  IF ends # {} /\ txt[SetMin(ends)] = "?" THEN [start |-> p, stop |-> SetMin(ends)]
      ELSE NoMatch

\* extractQuestion: the first regex, else the second, else ""; the group is
\* cleaned of repeated and surrounding whitespace
extractQuestion(txt) ==
  LET qs == {p \in 1..Len(txt) : QuestionMatchAt(txt, p) # NoMatch}
      ss == {p \in 1..Len(txt) : SentenceMatchAt(txt, p) # NoMatch}
      m == IF qs # {} THEN QuestionMatchAt(txt, SetMin(qs))
           ELSE IF ss # {} THEN SentenceMatchAt(txt, SetMin(ss))
           ELSE NoMatch
  IN  IF m = NoMatch THEN "" ELSE Str(Trim(CollapseSpaces(SubSeq(txt, m.start, m.stop))))

\* promptTemplates: each template stands by its opening sentence
Categories == {"Science", "Technology", "Mathematics", "Engineering"}
Difficulties == {"Easy", "Medium", "Hard"}
promptTemplates ==
  [c \in Categories |-> [d \in Difficulties |->
     CASE c = "Science" /\ d = "Easy" -> "Create a basic science question with 3 options."
       [] c = "Science" /\ d = "Medium" -> "Create a science question with 3 options."
       [] c = "Science" /\ d = "Hard" -> "Create an advanced science question with 3 options."
       [] c = "Technology" /\ d = "Easy" -> "Create a basic tech question with 3 options."
       [] c = "Technology" /\ d = "Medium" -> "Create a tech question with 3 options."
       [] c = "Technology" /\ d = "Hard" -> "Create an advanced tech question with 3 options."
       [] c = "Mathematics" /\ d = "Easy" -> "Create a basic math question with 3 options."
       [] c = "Mathematics" /\ d = "Medium" -> "Create a math question with 3 options."
       [] c = "Mathematics" /\ d = "Hard" -> "Create an advanced math question with 3 options."
       [] c = "Engineering" /\ d = "Easy" -> "Create a basic engineering question with 3 options."
       [] c = "Engineering" /\ d = "Medium" -> "Create an engineering question with 3 options."
       [] OTHER -> "Create an advanced engineering question with 3 options."]]

\* the fallback to "Easy" in place of "Medium"
DefaultDifficultyEasy == "Easy"

DefaultCategory == "Science"
DefaultDifficulty == "Medium"

\* buildPrompt(category, difficulty)
buildPrompt(category, difficulty) ==
  LET cat == IF category \in DOMAIN promptTemplates THEN category ELSE DefaultCategory
      diff == IF difficulty \in DOMAIN promptTemplates[cat] THEN difficulty ELSE DefaultDifficulty
  IN  promptTemplates[cat][diff]

QuizModelTag == "DistilGPT-2-Quiz-Q2_K"
PsychologyModelTag == "DistilGPT-2-Psychology-Q2_K"
FallbackTag == "Fallback"

\* the fallback text without the category
QuizFallbackTextPlain(category) == <<"What is an important concept?">>

\* "What is an important concept in " + category + "?"
QuizFallbackText(category) == <<"What is an important concept in ", category, "?">>

\* the question returned when the quiz slot is not loaded
QuizFallback(category, difficulty) ==
  [question |-> QuizFallbackText(category),
   answers |-> <<"Concept A", "Concept B", "Concept C">>,
   correctAnswerIndex |-> 0,
   category |-> category,
   difficulty |-> difficulty,
   generated |-> FALSE,
   aiModel |-> FallbackTag]

\* parseAIResponse followed by question.aiModel = "DistilGPT-2-Quiz-Q2_K": the
\* questions it can give (the correct index may come from the random fallback)
parseAIResponse(resp, category, difficulty) ==
  {[question |-> IF extractQuestion(resp) = ""
                 THEN <<"What is a fundamental concept in ", category, "?">>
                 ELSE <<extractQuestion(resp)>>,
    answers |-> extractAnswers(resp),
    correctAnswerIndex |-> r.index,
    category |-> category,
    difficulty |-> difficulty,
    generated |-> TRUE,
    aiModel |-> QuizModelTag] : r \in extractCorrectAnswer(resp)}

\* the categories vector of generatePsychologyQuestions
PsychCategories ==
  <<"E/I_Social", "E/I_Energy", "S/N_Information", "S/N_Future",
    "T/F_Decisions", "T/F_Conflict", "J/P_Structure", "J/P_Deadlines">>

\* category.substr(0, 3)
TraitOfCategory(c) ==
  CASE c \in {"E/I_Social", "E/I_Energy"} -> "E/I"
    [] c \in {"S/N_Information", "S/N_Future"} -> "S/N"
    [] c \in {"T/F_Decisions", "T/F_Conflict"} -> "T/F"
    [] OTHER -> "J/P"

\* ids counted from 0
PsychQuestionIdFromZero(i) == i

\* the id given to the question of loop index i (i + 1)
PsychQuestionId(i) == i + 1

\* parsePsychologyResponse followed by question.aiModel = "DistilGPT-2-Psychology-Q2_K"
parsePsychologyResponse(resp, questionId, trait, category) ==
  [id |-> questionId,
   trait |-> trait,
   category |-> category,
   question |-> IF extractQuestion(resp) = ""
                THEN <<"How would you describe yourself in most situations?">>
                ELSE <<extractQuestion(resp)>>,
   options |-> extractPsychologyOptions(resp),
   generated |-> TRUE,
   aiModel |-> PsychologyModelTag]

\* responses of the model used for these calls: nothing, a sentence, a
\* question with one option, a complete question
SentenceResponse == <<"x", ".">>
PartialResponse == <<"q", "?", " ", "A", ")", "x">>
CompleteResponse ==
  QuestionWord \o <<" ", "q", "?", " ", "A", ")", "x", "\n", "B", ")", "y", "\n",
                    "C", ")", "z", "\n">> \o AnswerWord \o <<" ", "B">>
ApiResponses == {<<>>, SentenceResponse, PartialResponse, CompleteResponse}
PsychResponses == {<<>>, PartialResponse}

\* generateText called by one thread with no other call running: "" without
\* touching the slot when it is not loaded; else the counter is incremented
\* and the text is "" (tokenize or decode failure) or what the loop built
GenerateTextResults(s, responses) ==
  IF ~isModelLoaded(s) THEN {[text |-> <<>>, counted |-> FALSE]}
  ELSE {[text |-> x, counted |-> TRUE] : x \in responses \cup {<<>>}}

\* requests
RequestCategories == Categories \cup {"History", ""}
RequestDifficulties == Difficulties \cup {"Extreme"}
Counts == {1, 2, 7, 8, 9, 12}

\* generateQuestion(category, difficulty, playerName), as one step
GenerateQuestionBody(category, difficulty) ==
  IF ~isModelLoaded("quiz")
  THEN /\ question' = QuizFallback(category, difficulty)
       /\ UNCHANGED <<usageCount, genCalls, aiResponse, prompt>>
  ELSE /\ prompt' = buildPrompt(category, difficulty)
       /\ genCalls' = genCalls + 1
       /\ \E g \in GenerateTextResults("quiz", ApiResponses) :
            /\ aiResponse' = g.text
            /\ usageCount' = [usageCount EXCEPT !["quiz"] = @ + (IF g.counted THEN 1 ELSE 0)]
            /\ question' \in parseAIResponse(g.text, category, difficulty)

\* a caller calls generateQuestion directly
GenerateQuestion ==
  /\ rpc = "idle"
  /\ \E c \in RequestCategories, d \in RequestDifficulties :
       /\ req' = [kind |-> "question", category |-> c, difficulty |-> d, count |-> 0]
       /\ GenerateQuestionBody(c, d)
  /\ rpc' = "done"
  /\ UNCHANGED <<model, context, isLoaded, modelPath, modelMutex, procVars,
                 threadVars, questions, httpStatus, psychIdx, scoreVars, parseVars,
                 samplingVars>>

\* return quizModel && psychologyModel && analysisModel loaded
areModelsLoaded == isModelLoaded("quiz") /\ isModelLoaded("psychology") /\ isModelLoaded("analysis")

\* HttpServer::handleGenerateQuiz: 503 unless all models are loaded, else the
\* question of generateQuestion with status 200
HandleGenerateQuiz ==
  /\ rpc = "idle"
  /\ \E c \in RequestCategories, d \in RequestDifficulties :
       /\ req' = [kind |-> "http_quiz", category |-> c, difficulty |-> d, count |-> 0]
       /\ IF ~areModelsLoaded
          THEN /\ httpStatus' = 503
               /\ UNCHANGED <<question, usageCount, genCalls, aiResponse, prompt>>
          ELSE /\ httpStatus' = 200
               /\ GenerateQuestionBody(c, d)
  /\ rpc' = "done"
  /\ UNCHANGED <<model, context, isLoaded, modelPath, modelMutex, procVars,
                 threadVars, questions, psychIdx, scoreVars, parseVars,
                 samplingVars>>

\* generatePsychologyQuestions(count): the loaded check; an empty vector is
\* returned when the slot is not loaded
StartPsychologyQuestions ==
  /\ rpc = "idle"
  /\ \E n \in Counts : req' = [kind |-> "psychology", category |-> "", difficulty |-> "", count |-> n]
  /\ rpc' = IF isModelLoaded("psychology") THEN "psych_loop" ELSE "done"
  /\ UNCHANGED <<slotVars, procVars, threadVars, question, questions, httpStatus,
                 genCalls, aiResponse, prompt, psychIdx, scoreVars, parseVars,
                 samplingVars>>

\* i < count && i < categories.size()
PsychLoopContinues == psychIdx < req.count /\ psychIdx < Len(PsychCategories)

\* one iteration: generateText, parsePsychologyResponse, push_back, ++i
PsychologyStep ==
  /\ rpc = "psych_loop"
  /\ PsychLoopContinues
  /\ genCalls' = genCalls + 1
  /\ \E g \in GenerateTextResults("psychology", PsychResponses) :
       /\ aiResponse' = g.text
       /\ usageCount' = [usageCount EXCEPT !["psychology"] = @ + (IF g.counted THEN 1 ELSE 0)]
       /\ questions' = Append(questions,
            parsePsychologyResponse(g.text, PsychQuestionId(psychIdx),
                                    TraitOfCategory(PsychCategories[psychIdx + 1]),
                                    PsychCategories[psychIdx + 1]))
  /\ psychIdx' = psychIdx + 1
  /\ UNCHANGED <<model, context, isLoaded, modelPath, modelMutex, procVars,
                 threadVars, rpc, req, question, httpStatus, prompt, scoreVars, parseVars,
                 samplingVars>>

\* return questions
PsychologyReturn ==
  /\ rpc = "psych_loop"
  /\ ~PsychLoopContinues
  /\ rpc' = "done"
  /\ UNCHANGED <<slotVars, procVars, threadVars, req, question, questions, httpStatus,
                 genCalls, aiResponse, prompt, psychIdx, scoreVars, parseVars,
                 samplingVars>>

\* the engine once the constructor has returned, with the slots of Loaded
\* loaded and the others empty
ConstructedWith(Loaded) ==
  /\ model = [s \in Slots |-> s \in Loaded]
  /\ context = [s \in Slots |-> s \in Loaded]
  /\ isLoaded = [s \in Slots |-> s \in Loaded]
  /\ modelPath = [s \in Slots |-> IF s \in Loaded THEN CtorPath(s) ELSE ""]
  /\ usageCount = [s \in Slots |-> 0]
  /\ modelMutex = [s \in Slots |-> NoThread]
  /\ managerMutex = NoThread
  /\ llamaInitFlag = "done"
  /\ backendInits = 1
  /\ constructed = TRUE
  /\ crashed = FALSE
  /\ calls = 0
  /\ nullUse = FALSE
  /\ pc = [t \in Threads |-> IF t \in Loaders THEN "done" ELSE "idle"]
  /\ op = [t \in Threads |-> IF t \in Loaders THEN "ctor" ELSE "none"]
  /\ cur = [t \in Threads |-> IF t \in Loaders THEN SlotOrder[t] ELSE "quiz"]
  /\ argPath = [t \in Threads |-> IF t \in Loaders THEN CtorPath(SlotOrder[t]) ELSE ""]
  /\ kstep = [t \in Threads |-> 0]
  /\ success = [t \in Threads |-> TRUE]
  /\ ret = [t \in Threads |->
             IF t \in Loaders THEN (IF SlotOrder[t] \in Loaded THEN "true" ELSE "false")
             ELSE "none"]
  /\ cause = [t \in Threads |-> "none"]
  /\ engineCalls = [t \in Threads |-> 0]
  /\ iter = [t \in Threads |-> 0]
  /\ retText = [t \in Threads |-> EmptyText]

ApiInit ==
  /\ \E Loaded \in SUBSET Slots : ConstructedWith(Loaded)
  /\ answers = <<>> /\ apc = "off" /\ result = NoResult
  /\ ParseIdle
  /\ SamplingInit
  /\ rpc = "idle"
  /\ req = NoRequest
  /\ question = NoQuestion
  /\ questions = <<>>
  /\ httpStatus = 0
  /\ genCalls = 0
  /\ aiResponse = <<>>
  /\ prompt = ""
  /\ psychIdx = 0

ApiNext ==
  \/ GenerateQuestion \/ HandleGenerateQuiz
  \/ StartPsychologyQuestions \/ PsychologyStep \/ PsychologyReturn

SpecApi == ApiInit /\ [][ApiNext]_vars

\* ================================================== configuration setters
\* arguments a caller can pass: any float, any int
FloatArgs ==
  {NaN, PlusInf, MinusInf}
    \cup {Num(v) : v \in {-100, 0, 5, 10, 11, 70, 149, 150, 151, 1000}}
IntArgs ==
  {-2147483647, -1, 0, 31, 32, 33, 128, 255, 256, 257, 511, 512, 513, 1024,
   2047, 2048, 2049, 2147483647}

setTemperature ==
  /\ \E temp \in FloatArgs : temperature' = ClampedTemperature(temp)
  /\ UNCHANGED <<maxTokens, contextSize, branch, loop, engineVars, scoreVars,
                 parseVars, apiVars>>

setMaxTokens ==
  /\ \E tokens \in IntArgs : maxTokens' = ClampedMaxTokens(tokens)
  /\ UNCHANGED <<temperature, contextSize, branch, loop, engineVars, scoreVars,
                 parseVars, apiVars>>

setContextSize ==
  /\ \E size \in IntArgs : contextSize' = ClampedContextSize(size)
  /\ UNCHANGED <<temperature, maxTokens, branch, loop, engineVars, scoreVars,
                 parseVars, apiVars>>

\* the test of the sampling loop, made in every iteration of a generation:
\* if (temperature <= 0) greedy choice else softmax with temperature
SampleWithTemperature ==
  /\ \E s \in Slots : isModelLoaded(s)
  /\ branch' = IF FLessEq(temperature, Num(0)) THEN "greedy" ELSE "softmax"
  /\ UNCHANGED <<temperature, maxTokens, contextSize, loop, engineVars,
                 scoreVars, parseVars, apiVars>>

ConfigInit ==
  /\ ConstructedWith(Slots)
  /\ answers = <<>> /\ apc = "off" /\ result = NoResult
  /\ ParseIdle
  /\ SamplingInit
  /\ ApiIdle

ConfigNext ==
  setTemperature \/ setMaxTokens \/ setContextSize \/ SampleWithTemperature

SpecConfig == ConfigInit /\ [][ConfigNext]_vars

\* ======================================= the sampling loop, step by step
\* one iteration of for (int i = 0; i < maxTokens; ++i): the temperature
\* test, the token, the end-of-sequence test, the append, the decode and the
\* early-stop test
LoopIterate ==
  /\ loop.exit = "none"
  /\ LoopGoesOn(loop.i, MaxLoopTokens)
  /\ loop' \in SampleStep(loop)
  /\ branch' = IF FLessEq(temperature, Num(0)) THEN "greedy" ELSE "softmax"
  /\ UNCHANGED <<temperature, maxTokens, contextSize, engineVars, scoreVars,
                 parseVars, apiVars>>

\* the loop test fails; return response
LoopEnds ==
  /\ loop.exit = "none"
  /\ ~LoopGoesOn(loop.i, MaxLoopTokens)
  /\ loop' = [loop EXCEPT !.exit = "cap"]
  /\ UNCHANGED <<temperature, maxTokens, contextSize, branch, engineVars,
                 scoreVars, parseVars, apiVars>>

LoopNext == LoopIterate \/ LoopEnds

SpecLoop == ConfigInit /\ [][LoopNext]_vars

\* ------------------------------------------------------ parser behaviours
ParseInit ==
  /\ EngineInit
  /\ SamplingInit
  /\ ApiIdle
  /\ answers = <<>> /\ apc = "off" /\ result = NoResult
  /\ text \in Texts
  /\ ppc = "input"
  /\ entries = <<>>
  /\ correctIdx = 0
  /\ usedFallback = FALSE

ParseNext == ExtractAnswers \/ ExtractPsychologyOptions \/ ExtractCorrectAnswer

SpecParse == ParseInit /\ [][ParseNext]_vars

\* ---------------------------------------------------------- getModelInfo
\* a worker calls getModelInfo() (getModelMemoryUsage has the same shape)
StartModelInfo(t) ==
  /\ Running /\ constructed /\ t \in Workers
  /\ pc[t] = "idle" /\ calls < MaxCalls
  /\ calls' = calls + 1
  /\ op' = [op EXCEPT ![t] = "info"]
  /\ kstep' = [kstep EXCEPT ![t] = 1]
  /\ cur' = [cur EXCEPT ![t] = SlotOrder[1]]
  /\ pc' = [pc EXCEPT ![t] = "mi_check"]
  /\ UNCHANGED <<slotVars, managerMutex, llamaInitFlag, backendInits,
                 constructed, crashed, nullUse, argPath, success, ret, cause,
                 engineCalls, iter, retText, scoreVars, parseVars, apiVars,
                 samplingVars>>

\* getModelInfo goes on to the next slot, or returns after the third
InfoNextSlot(t) ==
  IF kstep[t] < 3
  THEN /\ kstep' = [kstep EXCEPT ![t] = kstep[t] + 1]
       /\ cur' = [cur EXCEPT ![t] = SlotOrder[kstep[t] + 1]]
       /\ pc' = [pc EXCEPT ![t] = "mi_check"]
  ELSE /\ pc' = [pc EXCEPT ![t] = "returned"]
       /\ UNCHANGED <<kstep, cur>>

\* if (isModelLoaded(slot)): the slot's lock is taken and released inside
InfoCheck(t) ==
  /\ Running /\ pc[t] = "mi_check"
  /\ modelMutex[cur[t]] = NoThread
  /\ IF isModelLoaded(cur[t])
     THEN /\ pc' = [pc EXCEPT ![t] = "mi_describe"]
          /\ UNCHANGED <<kstep, cur>>
     ELSE InfoNextSlot(t)
  /\ UNCHANGED <<slotVars, procVars, op, argPath, success, ret, cause,
                 engineCalls, iter, retText, scoreVars, parseVars, apiVars,
                 samplingVars>>

\* llama_model_desc(slot->model, buf, sizeof(buf)), made without the lock
InfoDescribe(t) ==
  /\ Running /\ pc[t] = "mi_describe"
  /\ engineCalls' = [engineCalls EXCEPT ![t] = engineCalls[t] + 1]
  /\ nullUse' = (nullUse \/ ~model[cur[t]])
  /\ \E o \in EngineOutcomes(model[cur[t]]) \ {"fail"} :
       \/ /\ o = "ok"
          /\ InfoNextSlot(t)
          /\ UNCHANGED crashed
       \/ /\ o = "crash"
          /\ crashed' = TRUE
          /\ UNCHANGED <<pc, kstep, cur>>
  /\ UNCHANGED <<slotVars, managerMutex, llamaInitFlag, backendInits,
                 constructed, calls, op, argPath, success, ret, cause, iter,
                 retText, scoreVars, parseVars, apiVars, samplingVars>>

\* ------------------------------------------------------ engine behaviours

EngineNext ==
  \/ \E t \in Threads :
       \/ InitLock(t) \/ CallOnce(t) \/ BackendInit(t) \/ LoadModel(t)
       \/ CreateContext(t) \/ FinishInit(t)
  \/ ConstructorReturns
  \/ \E t \in Workers :
       \/ StartReload(t) \/ ReloadLock(t) \/ CleanupLock(t)
       \/ CleanupContext(t) \/ CleanupModelHandle(t) \/ CleanupFlag(t)
       \/ ReloadReturn(t) \/ CallEnds(t)
       \/ \E s \in Slots : StartGenerate(t, s)
       \/ GenCheck(t) \/ GenLock(t) \/ GenCount(t) \/ GenTokenize(t)
       \/ GenDecode(t) \/ GenSample(t)

Init ==
  /\ EngineInit
  /\ ParseIdle
  /\ SamplingInit
  /\ ApiIdle
  /\ answers = <<>>
  /\ apc = "off"
  /\ result = NoResult

Spec == Init /\ [][EngineNext]_vars

\* --------------------------------------- one call per thread, scheduled fairly
\* what a request thread does once its call has started
WorkerStep(t) ==
  \/ ReloadLock(t) \/ CleanupLock(t) \/ CleanupContext(t)
  \/ CleanupModelHandle(t) \/ CleanupFlag(t)
  \/ InitLock(t) \/ CallOnce(t) \/ LoadModel(t) \/ CreateContext(t)
  \/ FinishInit(t) \/ ReloadReturn(t)
  \/ GenCheck(t) \/ GenLock(t) \/ GenCount(t) \/ GenTokenize(t)
  \/ GenDecode(t) \/ GenSample(t)
  \/ InfoCheck(t) \/ InfoDescribe(t)

\* each request thread makes one call: reloadModels, generateText on a slot,
\* or getModelInfo
FairNext ==
  \E t \in Workers :
    \/ StartReload(t)
    \/ \E s \in Slots : StartGenerate(t, s)
    \/ StartModelInfo(t)
    \/ WorkerStep(t)

\* the constructor has returned, with any of the slots loaded
FairInit ==
  /\ \E Loaded \in SUBSET Slots : ConstructedWith(Loaded)
  /\ answers = <<>> /\ apc = "off" /\ result = NoResult
  /\ ParseIdle
  /\ SamplingInit
  /\ ApiIdle

\* a thread that can take a step is scheduled eventually (the calls are
\* finitely many, so a lock that is released stays free long enough)
SpecFair ==
  FairInit /\ [][FairNext]_vars /\ \A t \in Workers : WF_vars(WorkerStep(t))

\* ================================================================ claims
SlotLoaded(s) == isLoaded[s] /\ model[s] /\ context[s]
SlotEmpty(s) == ~isLoaded[s] /\ ~model[s] /\ ~context[s]

\* positions of generateText at which the slot's lock is held
GenSection == {"gt_count", "gt_tokenize", "gt_decode", "gt_sample"}
Generating(t) == op[t] = "generate" /\ pc[t] \in GenSection

\* C1: while a reloadModels call holds the manager lock, no generateText call
\* on any slot is executing (reload and generation never interleave).
C1_ReloadExcludesGeneration ==
  managerMutex # NoThread => \A t \in Workers : ~Generating(t)

\* C2: a slot whose lock is free is either fully loaded (flag, model and
\* context) or fully empty, and an initializeModel call that fails at the
\* model-load step or at the context step leaves the slot fully empty, with
\* its lock released, and reports false.
C2_FreeSlotIsWhole ==
  \A s \in Slots : modelMutex[s] = NoThread => (SlotLoaded(s) \/ SlotEmpty(s))

C2_FailedLoadLeavesEmpty ==
  \A t \in Threads :
    ( /\ pc[t] \in {"im_load", "im_context"}
      /\ pc'[t] \notin {"im_load", "im_context", "im_finish"} )
    => /\ ~isLoaded'[cur[t]] /\ ~model'[cur[t]] /\ ~context'[cur[t]]
       /\ modelMutex'[cur[t]] = NoThread
       /\ (op[t] = "ctor" => ret'[t] = "false")
       /\ (op[t] = "reload" => ~success'[t])

C2_SlotFullyLoadedOrEmpty == []C2_FreeSlotIsWhole /\ [][C2_FailedLoadLeavesEmpty]_vars

\* C2 witness: construction is over, one slot failed to load and is empty,
\* another one is loaded
C2_Witness ==
  /\ constructed /\ calls = 0
  /\ ret[1] = "false" /\ SlotEmpty("quiz") /\ modelMutex["quiz"] = NoThread
  /\ ret[2] = "true" /\ SlotLoaded("psychology")

\* C3: for each slot at most one generateText call is in its locked section
\* (usage counter, tokenize, decode, sampling), and a call in that section
\* holds the slot's lock.
C3_OneGenerationPerSlot ==
  /\ \A t \in Workers : Generating(t) => modelMutex[cur[t]] = t
  /\ \A s \in Slots :
       Cardinality({t \in Workers : Generating(t) /\ cur[t] = s}) <= 1

\* C3 witness: two generateText calls on one slot, one sampling and the other
\* waiting for the lock
C3_Witness ==
  /\ pc[4] = "gt_sample" /\ pc[5] = "gt_lock"
  /\ cur[4] = cur[5]

\* C4: generateText never raises; it returns the empty string when the slot
\* is not loaded, when tokenization fails and when the decode of the prompt
\* fails; and the engine is never called for a slot that is not loaded.
C4_GenerateFailsSoftly ==
  /\ ~crashed
  /\ ~nullUse
  /\ \A t \in Workers :
       (op[t] = "generate" /\ pc[t] = "returned"
          /\ cause[t] \in {"not_loaded", "tokenize", "decode"})
       => /\ retText[t] = EmptyText
          /\ (cause[t] = "not_loaded" => engineCalls[t] = 0)

\* C5: the constructor returns only after its three load tasks have ended;
\* at its return every slot is loaded or empty and no load is in progress.
C5_ConstructorWaitsForLoads ==
  /\ constructed => \A t \in Loaders : pc[t] = "done"
  /\ (constructed /\ calls = 0) =>
       \A s \in Slots :
         modelMutex[s] = NoThread /\ (SlotLoaded(s) \/ SlotEmpty(s))

\* C5 witness: the constructor has returned with one slot loaded and the
\* two others not
C5_Witness ==
  /\ constructed /\ calls = 0
  /\ SlotLoaded("analysis") /\ SlotEmpty("quiz") /\ SlotEmpty("psychology")

\* C6: llama_backend_init runs at most once, and it has run (and ended)
\* before any initializeModel call goes on to load a model.
C6_BackendInitOnce ==
  /\ backendInits <= 1
  /\ \A t \in Threads :
       pc[t] \in {"im_load", "im_context", "im_finish"}
       => (llamaInitFlag = "done" /\ backendInits = 1)

\* C6 witness: a load made by reloadModels, after the three construction-time
\* loads, is about to load its model and the backend was initialised once
C6_Witness ==
  \E t \in Workers :
    op[t] = "reload" /\ pc[t] = "im_load" /\ kstep[t] = 3 /\ backendInits = 1

\* ------------------------------------------------------- scoring claims
Analysed == apc = "done"
Last(as) == as[Len(as)]
Front(as) == SubSeq(as, 1, Len(as) - 1)
ESTJ == <<"E", "S", "T", "J">>
INFP == <<"I", "N", "F", "P">>

\* C7 as stated: per dichotomy the letter with the higher score, a tie going
\* to the first-listed letter (E, S, T, J); no answers gives ESTJ.
C7_TiesGoToFirstLetter ==
  Analysed =>
    /\ \A k \in 1..4 :
         LET d == Dichotomies[k]
         IN  result.personalityType[k] =
               IF result.scores[First(d)] >= result.scores[Second(d)]
               THEN First(d) ELSE Second(d)
    /\ (answers = <<>> => result.personalityType = ESTJ)

\* C7 amended: per dichotomy the first-listed letter only when its score is
\* strictly higher; a tie goes to the second-listed letter (I, N, F, P), so
\* no answers, or only neutral ones, gives INFP.
C7_TiesGoToSecondLetter ==
  Analysed =>
    /\ result.scores = calculateTraitScores(answers)
    /\ \A k \in 1..4 :
         LET d == Dichotomies[k]
             sc == result.scores
         IN  /\ sc[First(d)] > sc[Second(d)] => result.personalityType[k] = First(d)
             /\ sc[First(d)] < sc[Second(d)] => result.personalityType[k] = Second(d)
             /\ sc[First(d)] = sc[Second(d)] => result.personalityType[k] = Second(d)
    /\ ((\A i \in 1..Len(answers) : answers[i].selectedOption \notin {0, 2})
          => result.personalityType = INFP)

\* C7 witness: an analysis with a won dichotomy and tied ones
C7_Witness ==
  /\ Analysed /\ answers # <<>>
  /\ result.scores["E"] > result.scores["I"]
  /\ result.scores["S"] = result.scores["N"]
  /\ result.personalityType[1] = "E" /\ result.personalityType[2] = "N"

\* the dichotomy the claim gives to a question id (ids 1-2, 3-4, 5-6, 7+)
ClaimedDichotomy(qid) ==
  IF qid \in 1..2 THEN "E/I"
  ELSE IF qid \in 3..4 THEN "S/N"
  ELSE IF qid \in 5..6 THEN "T/F"
  ELSE "J/P"

\* C8: an answer with id 1-2 updates only E/I, 3-4 only S/N, 5-6 only T/F,
\* 7 and above only J/P: the running mean is applied to that pair and the
\* six other scores are as before the answer.
C8_AnswerUpdatesOnlyItsDichotomy ==
  (Analysed /\ answers # <<>> /\ Last(answers).questionId >= 1) =>
    LET a == Last(answers)
        d == ClaimedDichotomy(a.questionId)
    IN  /\ result.scores = calculateTraitScores(answers)
        /\ \A before \in {calculateTraitScores(Front(answers))} :
             /\ \A l \in Letters \ {First(d), Second(d)} : result.scores[l] = before[l]
             /\ 2 * result.scores[First(d)] = before[First(d)] + DirectionalScore(a)

\* C8 witness: an analysed sequence whose last answer has id 8 and moved J/P
C8_Witness ==
  /\ Analysed /\ Len(answers) = MaxAnswers
  /\ Last(answers).questionId = 8
  /\ result.scores["J"] # calculateTraitScores(Front(answers))["J"]

Relabel(as, labels) == [i \in 1..Len(as) |-> [as[i] EXCEPT !.trait = labels[i]]]

\* C9: scores, type and confidence do not depend on the trait field: every
\* relabelling of the answers' traits gives the same analysis.
C9_TraitLabelIsIgnored ==
  Analysed =>
    \A labels \in [1..Len(answers) -> Traits] :
      analyzePersonality(Relabel(answers, labels)) = result

\* C9 witness: an analysed answer whose declared trait is not the dichotomy
\* of its id, and which moved a score
C9_Witness ==
  /\ Analysed /\ answers # <<>>
  /\ \E i \in 1..Len(answers) :
       /\ answers[i].trait # TraitOfAnswer(answers[i])
       /\ answers[i].selectedOption = 0
  /\ result.scores # InitialScores

\* C10: every score lies in [0,1] and the two letters of each dichotomy sum
\* to exactly 1, after each answer.
C10_ScoresBoundedAndPaired ==
  Analysed =>
    /\ result.scores = calculateTraitScores(answers)
    /\ \A l \in Letters : 0 <= result.scores[l] /\ result.scores[l] <= Unit
    /\ \A k \in 1..4 :
         result.scores[First(Dichotomies[k])] + result.scores[Second(Dichotomies[k])] = Unit

\* C10 witness: the longest sequence, all on one dichotomy
C10_Witness ==
  /\ Analysed /\ Len(answers) = MaxAnswers
  /\ \A i \in 1..Len(answers) : answers[i].questionId = 1 /\ answers[i].selectedOption = 0
  /\ result.scores["E"] > Half /\ result.scores["I"] < Half

\* C11: the confidence of analyzePersonality is min(1.0, 2 x the mean over the
\* four dichotomies of |winning letter's score - 0.5|) and lies in [0,1].
\* (result.confidence is a fraction of ConfidenceUnit; 2 x mean over four of
\* x/Unit is 2 x sum / ConfidenceUnit.)
C11_ConfidenceFromWinners ==
  Analysed =>
    \A winners \in {2 * ( Abs(result.scores[PickLetter(result.scores, "E/I")] - Half)
                        + Abs(result.scores[PickLetter(result.scores, "S/N")] - Half)
                        + Abs(result.scores[PickLetter(result.scores, "T/F")] - Half)
                        + Abs(result.scores[PickLetter(result.scores, "J/P")] - Half) )} :
      /\ result.confidence = IF winners > ConfidenceUnit THEN ConfidenceUnit ELSE winners
      /\ 0 <= result.confidence /\ result.confidence <= ConfidenceUnit
      /\ result.confidence = analyzePersonality(answers).confidence

\* C11 witness: an analysis with a won dichotomy, a lost one and a positive
\* confidence
C11_Witness ==
  /\ Analysed
  /\ result.scores["E"] > Half /\ result.scores["S"] < Half
  /\ result.confidence > 0 /\ result.confidence < ConfidenceUnit

ScenarioAnswers ==
  <<[questionId |-> 1, selectedOption |-> 0, trait |-> "E/I"],
    [questionId |-> 3, selectedOption |-> 1, trait |-> "E/I"],
    [questionId |-> 5, selectedOption |-> 0, trait |-> "E/I"],
    [questionId |-> 7, selectedOption |-> 2, trait |-> "E/I"]>>

\* C12: for (1,0),(3,1),(5,0),(7,2) the scores are E = 0.65, S = 0.5,
\* T = 0.65, J = 0.35 and the 4th letter is P; whenever J ends below 0.5 the
\* 4th letter is P.
C12_ScenarioEndsInP ==
  Analysed =>
    /\ result = analyzePersonality(answers)
    /\ (answers = ScenarioAnswers =>
          /\ 100 * result.scores["E"] = 65 * Unit
          /\ 100 * result.scores["S"] = 50 * Unit
          /\ 100 * result.scores["T"] = 65 * Unit
          /\ 100 * result.scores["J"] = 35 * Unit
          /\ result.personalityType[4] = "P")
    /\ (result.scores["J"] < Half => result.personalityType[4] = "P")

\* C12 witness: the scenario's four answers, analysed
C12_Witness ==
  /\ Analysed /\ answers = ScenarioAnswers
  /\ result.scores["J"] < Half /\ result.personalityType = <<"E", "N", "T", "P">>

\* ------------------------------------------------------- parser claims
\* the cleaned groups of the option markers of the text, in text order, and
\* the positions of the non-empty ones
CleanedMatches == [i \in 1..Len(OptionMatches(text, 1)) |-> Str(CleanOption(OptionMatches(text, 1)[i]))]
NonEmptyAt(cm) == {i \in 1..Len(cm) : cm[i] # ""}
NthOf(S, n) == CHOOSE i \in S : Cardinality({j \in S : j < i}) = n - 1
TakenCount(cm) == IF Cardinality(NonEmptyAt(cm)) < 3 THEN Cardinality(NonEmptyAt(cm)) ELSE 3
AnswerPads == <<"Option 1", "Option 2", "Option 3">>
OptionPads == <<"Strongly agree", "Neutral", "Strongly disagree">>
PadsOf(which) == IF which = "answers" THEN AnswerPads ELSE OptionPads

\* C13: extractAnswers and extractOptions return exactly 3 entries for every
\* text; the entries taken from the text are the first non-empty matches in
\* text order and come before any placeholder.
C13_AlwaysThreeEntries ==
  ppc \in {"answers", "options"} =>
    \A cm \in {CleanedMatches} :
      /\ Len(entries) = 3
      /\ \A n \in 1..3 :
           IF n <= TakenCount(cm)
           THEN entries[n] = cm[NthOf(NonEmptyAt(cm), n)]
           ELSE entries[n] \in {PadsOf(ppc)[k] : k \in 1..3}

\* C13 witness: more than three non-empty matches
C13_Witness ==
  /\ ppc = "answers"
  /\ Cardinality(NonEmptyAt(CleanedMatches)) > 3
  /\ entries = <<"x", "x", "x">>

\* C13 witness, other cases: an empty match skipped, two entries padded
C13_WitnessSkipped ==
  /\ ppc = "options"
  /\ Len(CleanedMatches) = 2 /\ CleanedMatches[1] = ""
  /\ entries[1] = CleanedMatches[2] /\ entries[2] = "Neutral"

HasAnswerMarkerAt(p) ==
  /\ p + 6 <= Len(text)
  /\ SubSeq(text, p, p + 6) = AnswerWord
  /\ \E q \in (p + 7)..Len(text) :
       text[q] \in MarkerLetters /\ \A i \in (p + 7)..(q - 1) : IsSpace(text[i])
AnswerMarkers == {p \in 1..Len(text) : HasAnswerMarkerAt(p)}
LetterAfter(p) == text[SetMin({q \in (p + 7)..Len(text) : ~IsSpace(text[q])})]

\* C14: extractCorrectAnswer returns a value in {0,1,2}; when the text has
\* "Answer:" followed (after optional whitespace) by A, B or C, the result is
\* the index of the first such letter; the weighted fallback is used only
\* when there is no such marker.
C14_CorrectAnswerIndex ==
  ppc = "correct" =>
    /\ correctIdx \in {0, 1, 2}
    /\ (AnswerMarkers # {} =>
          /\ ~usedFallback
          /\ correctIdx = LetterIndex(LetterAfter(SetMin(AnswerMarkers))))
    /\ (usedFallback => AnswerMarkers = {})

\* C14 witness: two markers with different letters, the first one taken
C14_Witness ==
  /\ ppc = "correct"
  /\ Cardinality(AnswerMarkers) = 2
  /\ LetterAfter(SetMin(AnswerMarkers)) = "B"
  /\ LetterAfter(SetMax(AnswerMarkers)) = "C"
  /\ correctIdx = 1 /\ ~usedFallback

\* C15 as stated: with fewer than 3 options extracted, the 1st missing slot
\* gets "Strongly agree", the 2nd missing slot "Neutral", the 3rd missing
\* slot "Strongly disagree"; the quiz extractor pads with "Option N".
C15_PadsByMissingRank ==
  /\ ppc = "options" =>
       \A m \in 1..(3 - TakenCount(CleanedMatches)) :
         entries[TakenCount(CleanedMatches) + m] = OptionPads[m]
  /\ ppc = "answers" =>
       \A n \in (TakenCount(CleanedMatches) + 1)..3 : entries[n] = AnswerPads[n]

\* C15 amended: the placeholder goes by the position of the slot: a missing
\* slot 1 gets "Strongly agree", a missing slot 2 "Neutral", a missing slot 3
\* "Strongly disagree"; the quiz extractor pads slot N with "Option N".
C15_PadsBySlotPosition ==
  /\ ppc = "options" =>
       \A n \in (TakenCount(CleanedMatches) + 1)..3 : entries[n] = OptionPads[n]
  /\ ppc = "answers" =>
       \A n \in (TakenCount(CleanedMatches) + 1)..3 : entries[n] = AnswerPads[n]

\* C15 witness: one option extracted, slots 2 and 3 padded
C15_Witness ==
  /\ ppc = "options"
  /\ TakenCount(CleanedMatches) = 1
  /\ entries = <<"x", "Neutral", "Strongly disagree">>

\* ------------------------------------------- question-generation claims
Returned(kind) == rpc = "done" /\ req.kind = kind
FacetCount == 8
MbtiTraits == {"E/I", "S/N", "T/F", "J/P"}

\* C16: with the psychometric slot loaded, generatePsychologyQuestions(count),
\* count >= 1, returns exactly min(count, 8) questions with ids 1..min(count,8)
\* in order, each with a trait of {E/I, S/N, T/F, J/P} and exactly 3 options.
C16_PsychologyQuestionsCapped ==
  (Returned("psychology") /\ isModelLoaded("psychology") /\ req.count >= 1) =>
    /\ Len(questions) = IF req.count < FacetCount THEN req.count ELSE FacetCount
    /\ \A i \in 1..Len(questions) :
         /\ questions[i].id = i
         /\ questions[i].trait \in MbtiTraits
         /\ Len(questions[i].options) = 3

\* C16 witness: 12 questions asked for, 8 returned
C16_Witness ==
  /\ Returned("psychology") /\ req.count = 12
  /\ Len(questions) = 8 /\ questions[8].id = 8 /\ questions[8].trait = "J/P"

\* C17: with the quiz slot not loaded, generateQuestion returns a question
\* with generated = false, a non-empty text containing the category, exactly
\* 3 answers and a correct index in 0..2, without calling generateText and
\* without changing the slot's usage counter.
C17_QuizFallbackWhenNotLoaded ==
  (Returned("question") /\ ~isModelLoaded("quiz")) =>
    /\ ~question.generated
    /\ \E i \in 1..Len(question.question) : question.question[i] # ""
    /\ \E i \in 1..Len(question.question) : question.question[i] = req.category
    /\ Len(question.answers) = 3
    /\ question.correctAnswerIndex \in 0..2
    /\ genCalls = 0
    /\ usageCount["quiz"] = 0

\* C17 witness: the fallback question for an unconfigured category
C17_Witness ==
  /\ Returned("question") /\ ~isModelLoaded("quiz") /\ isModelLoaded("analysis")
  /\ req.category = "History"
  /\ question.aiModel = FallbackTag /\ ~question.generated

\* the parser could not take a question, three options or the answer letter
\* from the response
Substituted(resp) ==
  \/ extractQuestion(resp) = ""
  \/ Len(Collect(OptionMatches(resp, 1), <<>>)) < 3
  \/ AnswerMatches(resp) = {}

\* C18: when the slot is loaded but generateText returns the empty string, or
\* the parser substitutes its fallbacks, the returned question has
\* generated = false or the fallback model tag.
C18_FailuresAreFlagged ==
  /\ (rpc = "done" /\ req.kind \in {"question", "http_quiz"} /\ genCalls > 0
        /\ (aiResponse = <<>> \/ Substituted(aiResponse)))
     => (~question.generated \/ question.aiModel = FallbackTag)
  /\ (req.kind = "psychology" /\ questions # <<>> /\ aiResponse = <<>>)
     => (~questions[Len(questions)].generated
           \/ questions[Len(questions)].aiModel = FallbackTag)

\* C19: a quiz request (generateQuestion, and the HTTP quiz handler) gives a
\* model-generated question whenever the quiz slot is loaded, whether or not
\* the psychometric or analysis slot is loaded.
C19_QuizServedWhenQuizLoaded ==
  (rpc = "done" /\ req.kind \in {"question", "http_quiz"} /\ isModelLoaded("quiz")) =>
    /\ question.generated /\ question.aiModel = QuizModelTag
    /\ (req.kind = "http_quiz" => httpStatus = 200)

\* C20: buildPrompt gives a non-empty template for the 4 categories and 3
\* difficulties; an unconfigured category gives the "Science" template of the
\* difficulty, an unconfigured difficulty the "Medium" template of the
\* (possibly defaulted) category.
C20_PromptFallbacks ==
  (rpc = "done" /\ req.kind \in {"question", "http_quiz"} /\ genCalls > 0) =>
    LET cat == IF req.category \in Categories THEN req.category ELSE "Science"
        diff == IF req.difficulty \in Difficulties THEN req.difficulty ELSE "Medium"
    IN  /\ prompt # ""
        /\ prompt = promptTemplates[cat][diff]
        /\ prompt = buildPrompt(req.category, req.difficulty)

\* C20 witness: neither the category nor the difficulty is configured
C20_Witness ==
  /\ Returned("question") /\ genCalls = 1
  /\ req.category = "History" /\ req.difficulty = "Extreme"
  /\ prompt = "Create a science question with 3 options."

\* --------------------------------------------- scoring claims, continued
\* the directional score the claim gives to an option
ClaimedDirection(option) ==
  IF option = 0 THEN (8 * Unit) \div 10
  ELSE IF option = 2 THEN (2 * Unit) \div 10
  ELSE Half

Reversed(as) == [i \in 1..Len(as) |-> as[Len(as) + 1 - i]]

\* C22: each answer replaces the positive-letter score (E, S, T or J) of its
\* dichotomy by (prior + d) / 2 with d = 0.8 for option 0, 0.2 for option 2
\* and 0.5 for any other option, and sets the paired letter to 1 - positive;
\* the result depends on the order: two answers on one dichotomy with
\* different d give another score when exchanged (0 then 2 gives 0.425,
\* 2 then 0 gives 0.575).
C22_RunningMeanIsOrderSensitive ==
  (Analysed /\ answers # <<>>) =>
    LET a == Last(answers)
        d == TraitOfAnswer(a)
        sc == result.scores
    IN  /\ sc = calculateTraitScores(answers)
        /\ \A before \in {calculateTraitScores(Front(answers))} :
             /\ 2 * sc[First(d)] = before[First(d)] + ClaimedDirection(a.selectedOption)
             /\ sc[Second(d)] = Unit - sc[First(d)]
        /\ (Len(answers) = 2 /\ TraitOfAnswer(answers[1]) = d) =>
             /\ (sc = calculateTraitScores(Reversed(answers)))
                  <=> (ClaimedDirection(answers[1].selectedOption)
                         = ClaimedDirection(a.selectedOption))
             /\ (answers[1].selectedOption = 0 /\ a.selectedOption = 2)
                  => 1000 * sc[First(d)] = 425 * Unit
             /\ (answers[1].selectedOption = 2 /\ a.selectedOption = 0)
                  => 1000 * sc[First(d)] = 575 * Unit

\* C22 witness: options 0 then 2 on S/N, which end below neutral while the
\* exchanged order ends above it
C22_Witness ==
  /\ Analysed /\ Len(answers) = 2
  /\ answers[1].questionId = 3 /\ answers[1].selectedOption = 0
  /\ answers[2].questionId = 4 /\ answers[2].selectedOption = 2
  /\ result.scores["S"] < Half
  /\ calculateTraitScores(Reversed(answers))["S"] > Half

C21_ConfigurationStaysClamped ==
  /\ FLessEq(Num(10), temperature) /\ FLessEq(temperature, Num(150))
  /\ 32 <= maxTokens /\ maxTokens <= 256
  /\ 512 <= contextSize /\ contextSize <= 2048
  /\ branch # "greedy"

\* C21 witness: the three values moved to a limit of their range, and a
\* sampling iteration made with them
C21_Witness ==
  /\ temperature = Num(10) /\ maxTokens = 256 /\ contextSize = 512
  /\ branch = "softmax"

\* --------------------------------------------------- sampling-loop claims
\* an iteration of the loop is made in this step
TokenSampled == loop'.sampled > loop.sampled

\* C23 as stated: once the text contains "Answer:" and is at least 50
\* characters long, no further token is sampled.
C23_StopsAtFiftyChars ==
  [][TokenSampled =>
       ~(loop.response.marker /\ loop.response.len >= EarlyStopLen)]_vars

\* C23 amended: the loop stops early exactly when, after a token was appended
\* and decoded, the text contains "Answer:" and is longer than 50 characters
\* (51 or more); no further token is sampled once both hold, and a text of
\* exactly 50 characters does not stop the loop.
C23_StopsAboveFiftyChars ==
  /\ [](/\ loop.exit = "early_stop" =>
             (loop.response.marker /\ loop.response.len > EarlyStopLen)
        /\ loop.exit = "none" =>
             ~(loop.response.marker /\ loop.response.len > EarlyStopLen))
  /\ [][TokenSampled =>
          ~(loop.response.marker /\ loop.response.len > EarlyStopLen)]_vars

\* C23 witness: the loop went on after a text of 50 characters with the
\* marker and stopped at the next fragment
C23_Witness ==
  /\ loop.exit = "early_stop" /\ loop.sampled = 2 /\ loop.appended = 2
  /\ loop.response.marker /\ loop.response.len = EarlyStopLen + EarlyStopLen

\* ------------------------------------------------ engine claims, continued
GenerateExits == {"not_loaded", "tokenize", "decode", "eos", "decode_step",
                  "early_stop", "cap"}
HoldsNoSlot(t) == \A s \in Slots : modelMutex[s] # t

\* C24: provided the engine's calls return, every generateText call ends; it
\* makes at most maxTokens sampling iterations and appends at most maxTokens
\* fragments, never the end-of-sequence token's text; and on every exit path
\* (not loaded, tokenize failure, decode failure, end-of-sequence, early stop,
\* iteration cap) the slot's lock is released when it returns.
C24_GenerateEndsAndUnlocks ==
  /\ [](\A t \in Workers :
          (op[t] = "generate" /\ pc[t] = "returned") =>
            /\ cause[t] \in GenerateExits
            /\ iter[t] <= MaxTokens
            /\ HoldsNoSlot(t))
  /\ [](\A fin \in LoopOutcomes :
          /\ fin.sampled <= MaxTokens
          /\ fin.appended <= MaxTokens
          /\ fin.exit = "eos" => fin.appended < fin.sampled)
  /\ \A t \in Workers :
       (op[t] = "generate" /\ pc[t] # "returned") ~> (pc[t] = "returned" \/ crashed)

\* C24 witness: a call that waited for the slot's lock has returned through
\* the iteration cap with its lock released, and another through the early stop
C24_Witness ==
  /\ op[4] = "generate" /\ pc[4] = "returned" /\ cause[4] = "cap"
  /\ op[5] = "generate" /\ pc[5] = "returned" /\ cause[5] = "early_stop"
  /\ cur[4] = cur[5] /\ iter[4] = MaxTokens
  /\ modelMutex[cur[4]] = NoThread

\* C25: a slot's usageCount never decreases; it is incremented by one, once
\* per generateText call that found the slot loaded and never otherwise; and
\* every increment is made with the slot's lock held and the slot loaded.
C25_UsageCountConsistent ==
  [][\A s \in Slots :
       /\ usageCount'[s] >= usageCount[s]
       /\ usageCount'[s] # usageCount[s] =>
            /\ usageCount'[s] = usageCount[s] + 1
            /\ \E t \in Workers :
                 /\ op[t] = "generate" /\ pc[t] = "gt_count" /\ cur[t] = s
                 /\ pc'[t] = "gt_tokenize"
                 /\ modelMutex[s] = t
            /\ SlotLoaded(s)]_vars

\* a handle of the slot is passed to the inference engine by t in this step
EngineUsed(t) == engineCalls'[t] > engineCalls[t]

\* C26: whatever the interleaving of generateText, getModelInfo and
\* reloadModels, a slot's model or context handle is passed to the inference
\* engine only while the slot is loaded.
C26_HandlesUsedOnlyWhileLoaded ==
  [][\A t \in Workers : EngineUsed(t) => SlotLoaded(cur[t])]_vars

\* positions at which a thread is about to take a slot's lock or the manager's
LockPositions == {"im_lock", "cl_lock", "gt_check", "gt_lock", "mi_check",
                  "rl_lock"}

\* C27: no thread takes a slot's lock or the manager's lock while it holds a
\* slot's lock, and under fair scheduling (the engine's calls returning) every
\* started generateText, getModelInfo or reloadModels call completes.
C27_NoDeadlock ==
  /\ [](\A t \in Workers : pc[t] \in LockPositions => HoldsNoSlot(t))
  /\ \A t \in Workers : (pc[t] # "idle") ~> (pc[t] = "returned" \/ crashed)

\* C27 witness: a generateText call waits for a slot's lock that a
\* reloadModels call, holding the manager's lock, has taken
C27_Witness ==
  /\ op[4] = "generate" /\ pc[4] = "gt_lock"
  /\ op[5] = "reload" /\ managerMutex = 5
  /\ modelMutex[cur[4]] = 5

\* positions of initializeModel
InitPositions == {"im_lock", "im_once", "im_backend", "im_load", "im_context",
                  "im_finish"}

\* C28: reloadModels loads each slot from the path given for it to the
\* constructor, the slots whose construction-time load failed included.
C28_ReloadUsesConstructorPaths ==
  \A t \in Workers :
    (op[t] = "reload" /\ pc[t] \in InitPositions) => argPath[t] = CtorPath(cur[t])

\* a reloadModels call holding the manager's lock
InReload(t) == op[t] = "reload" /\ pc[t] \notin {"idle", "rl_lock", "returned"}

\* C29: reloadModels unloads the three slots and then tries to load all
\* three, going on after a failed load; it returns true exactly when the three
\* slots are loaded as it returns; two reloadModels calls run one after the
\* other.
C29_ReloadAllInTurn ==
  /\ [](/\ Cardinality({t \in Workers : InReload(t)}) <= 1
        /\ \A t \in Workers :
             /\ InReload(t) => managerMutex = t
             /\ (op[t] = "reload" /\ pc[t] \in InitPositions) =>
                  /\ \A k \in (kstep[t] + 1)..3 : SlotEmpty(SlotOrder[k])
                  /\ pc[t] = "im_lock" => SlotEmpty(cur[t]))
  /\ [][\A t \in Workers :
          /\ (pc[t] = "rl_return" /\ pc'[t] = "returned") =>
               ((ret'[t] = "true")
                  <=> \A s \in Slots : isLoaded'[s] /\ model'[s] /\ context'[s])
          /\ (op[t] = "reload" /\ pc[t] \in {"im_load", "im_context", "im_finish"}
                /\ pc'[t] \notin {"im_load", "im_context", "im_finish"}
                /\ kstep[t] < 3) =>
               /\ pc'[t] = "im_lock"
               /\ kstep'[t] = kstep[t] + 1
               /\ cur'[t] = SlotOrder[kstep[t] + 1]]_vars

\* C29 witness: a reloadModels call has returned false after the first load
\* failed and the third succeeded
C29_Witness ==
  \E t \in Workers :
    /\ op[t] = "reload" /\ pc[t] = "returned" /\ ret[t] = "false"
    /\ SlotEmpty("quiz") /\ SlotLoaded("analysis")

====
